---- MODULE Spec2Model ----
(***************************************************************************)
(* Pipeline (.slp) structure validation: the single-pass scanner           *)
(* validation/validate_structure.awk (the "fast path") and the checklist   *)
(* script validation/validate-slp.sh (the "comprehensive path"), run on    *)
(* the same document.                                                      *)
(*                                                                         *)
(* A document is a sequence of text lines.  Both programs are line         *)
(* oriented (awk pattern-action rules, grep), so a line is represented by  *)
(* what the patterns of the two programs can see in it.  Lines that match  *)
(* no pattern of either program and keep the document well formed (closing *)
(* braces, settings, views ...) change no variable and are not represented.*)
(*                                                                         *)
(* Further specifications in this module: the awk script on two documents  *)
(* that differ in their link endpoints (SpecPair), both programs on two    *)
(* documents that differ in one node's class_id (SpecClassPair), the       *)
(* script with command line options (SpecOptions), the schema MCP server   *)
(* of mcp-tools/mcp-snaplogic-schema: its tools (SpecServer), the loading  *)
(* and expiry of its catalog (SpecCatalog, SpecCatalogFair) and its        *)
(* SchemaCache by itself (SpecCache), and the SchemaCache variant with a   *)
(* full schema cache (SpecLRU).                                            *)
(***************************************************************************)
EXTENDS Integers, Sequences, FiniteSets, TLC

\* Longest document, in represented lines.
MaxLines == 7

(***************************************************************************)
(* Identifiers.  "u0", "u1" stand for 11111111-1111-1111-1111-000000000000 *)
(* and ...-000000000001; "abc" stands for an identifier that does not have *)
(* that shape.                                                             *)
(***************************************************************************)
SortedUuids == <<"u0", "u1">>

UuidIds == {SortedUuids[i] : i \in 1..Len(SortedUuids)}

OtherIds == {"abc"}

Ids == UuidIds \cup OtherIds

\* The shape 11111111-1111-1111-1111-[0-9]{12} used by every UUID pattern.
IsUuid(id) == id \in UuidIds

(***************************************************************************)
(* Lines, by their text:                                                   *)
(*   pipeline_class   "class_id": "com-snaplogic-pipeline",                *)
(*   snap_class       "class_id": "com-snaplogic-snaps-...",               *)
(*   other_class      "class_id": "<any other value>",                     *)
(*   class_version    "class_version": 9,                                  *)
(*   property_map     "property_map": {                                    *)
(*   snap_map         "snap_map": {                                        *)
(*   render_map       "render_map": {     (a section after snap_map)       *)
(*   link_map         "link_map": {                                        *)
(*   key(id)          "<id>": {                                            *)
(*   link_open        "link0": {                                           *)
(*   link_bare        "link": {   or   "link0":{   or   "link0":           *)
(*   link_close       },          (a line holding only the closing brace)  *)
(*   src_id(id)       "src_id": "<id>",                                    *)
(*   dst_id(id)       "dst_id": "<id>",                                    *)
(*   malformed        a line the JSON parser rejects (e.g. a stray brace)  *)
(***************************************************************************)
PlainKinds ==
    {"pipeline_class", "snap_class", "other_class", "class_version", "property_map",
     "snap_map", "render_map", "link_map", "link_open", "link_bare",
     "link_close", "malformed"}

IdKinds == {"key", "src_id", "dst_id"}

NoId == "-"

LineSet ==
    [kind : PlainKinds, id : {NoId}] \cup [kind : IdKinds, id : Ids]

\* Variant: the pattern stops at the common prefix "com-snaplogic-, so a snap's
\* class_id line matches too.
MatchPipelineClass_AnyClass(l) == l.kind \in {"pipeline_class", "snap_class"}

\* /"class_id": "com-snaplogic-pipeline"/
MatchPipelineClass(l) == l.kind = "pipeline_class"

\* /"class_id": "com-snaplogic-snaps-/
MatchSnapClass(l) == l.kind = "snap_class"

\* awk: /"link[0-9]+": {/
AwkMatchLink(l) == l.kind = "link_open"

\* grep: '"link[0-9]*":'
GrepMatchLink(l) == l.kind \in {"link_open", "link_bare"}

\* awk: /"snap_map": {/
AwkMatchSnapMap(l) == l.kind = "snap_map"

\* grep: '"snap_map"'
GrepMatchSnapMap(l) == l.kind = "snap_map"

\* Variant: the key pattern without its closing '": {', so that a UUID
\* anywhere on a line after snap_map counts as a snap_map key.
MatchUuidKey_NoKeySuffix(l) ==
    l.kind \in {"key", "src_id", "dst_id"} /\ IsUuid(l.id)

\* /"11111111-1111-1111-1111-[0-9]{12}": {/
MatchUuidKey(l) == l.kind = "key" /\ IsUuid(l.id)

\* grep -oE '"(src_id|dst_id)": "11111111-1111-1111-1111-[0-9]{12}"'
GrepMatchEndpointUuid(l) == l.kind \in {"src_id", "dst_id"} /\ IsUuid(l.id)

\* the required_fields array of validate_required_fields, in its order
required_fields == <<"class_id", "class_version", "property_map", "snap_map">>

\* grep -q "$field": the fields whose quoted name occurs in the line
FieldsIn(l) ==
    CASE l.kind \in {"pipeline_class", "snap_class", "other_class"} ->
             {"class_id"}
      [] l.kind = "class_version" -> {"class_version"}
      [] l.kind = "property_map" -> {"property_map"}
      [] l.kind = "snap_map" -> {"snap_map"}
      [] l.kind = "link_map" -> {"link_map"}
      [] OTHER -> {}

\* python3 -m json.tool accepts the line
JsonAccepts(l) == l.kind # "malformed"

VARIABLES
    pc,                    \* position of the run
    nlines,                \* lines of the document read so far
    \* ---- the document itself (what it really contains) ----
    doc_discriminator,     \* the document has the pipeline class_id line
    doc_section,           \* section the last line read lies in
    doc_nodes,             \* keys of the document's snap_map
    doc_duplicate,         \* two entries of snap_map carry the same key
    doc_endpoints,         \* src_id / dst_id values of the document's links
    \* ---- validate_structure.awk ----
    snap_count, link_count, pipeline_class_found, snap_ids_found, in_snap_map,
    awk_out,               \* lines printed
    awk_exit,              \* exit status, NotExited while running
    \* ---- what the greps of validate-slp.sh find in $FILE ----
    file,
    \* ---- validate-slp.sh ----
    ERROR_COUNT, WARNING_COUNT, VALIDATION_RESULTS, validation_passed,
    executed,              \* the validate_* functions main has called, in order
    failed,                \* the validate_* functions that returned non-zero
    QUIET, VERBOSE, JSON_OUTPUT,   \* the options of the command line
    stdout,                \* lines written to standard output, by their kind
    report,                \* the document printed by generate_json_output
    sh_exit                \* exit status, NotExited while running

doc_vars ==
    <<doc_discriminator, doc_section, doc_nodes, doc_duplicate, doc_endpoints>>

awk_vars ==
    <<snap_count, link_count, pipeline_class_found, snap_ids_found, in_snap_map>>

sh_vars ==
    <<ERROR_COUNT, WARNING_COUNT, VALIDATION_RESULTS, validation_passed,
      executed, failed, QUIET, VERBOSE, JSON_OUTPUT, stdout, report, sh_exit>>

run_vars ==
    <<pc, nlines, doc_vars, awk_vars, awk_out, awk_exit, file, sh_vars>>

VARIABLES
    \* ---- validate_structure.awk run on two documents that differ only in
    \* ---- the values of their src_id / dst_id lines
    pair_pc,               \* position of the two runs
    pair_n,                \* lines read so far (the same in both documents)
    awk1, awk2,            \* the awk variables of the two runs
    file1, file2,          \* what the greps of validate-slp.sh find in each
    class_changed          \* a node's class_id line differs between the two

pair_vars == <<pair_pc, pair_n, awk1, awk2, file1, file2, class_changed>>

VARIABLES
    \* ---- the schema MCP server (index.js) and its SchemaCache ----
    catalog,               \* class_id -> compactSnap (category, version)
    byCategory,            \* category -> set of class_ids
    searchIndex,           \* token -> set of class_ids
    catalogLastFetch,      \* NotFetched or the time of the last load
    now,                   \* Date.now(), in hours
    isLoading,
    handler,               \* position of each CallToolRequest handler
    response,              \* the result last returned by a handler
    fetches,               \* HTTP requests each handler issued for its call
    stale_handled,         \* a call was handled since the catalog expired
    reloaded               \* the last load replaced an earlier catalog

cache_vars == <<catalog, byCategory, searchIndex, catalogLastFetch>>

server_vars ==
    <<cache_vars, now, isLoading, handler, response, fetches, stale_handled,
      reloaded>>

VARIABLES
    \* ---- the SchemaCache with the full schema cache (part_002) ----
    fullSchemas,           \* the class_ids that are keys of the Map
    schemaAccessOrder,
    pending,               \* class_id each get_snap_schema request missed
    requested,             \* class_ids asked for so far: 1..requested
    irregular              \* requests for a class_id asked for before, or
                           \* begun while another request awaits its schema

lru_vars == <<fullSchemas, schemaAccessOrder, pending, requested, irregular>>

\* the variables outside the run of the two validators on one document
outside_run == <<pair_vars, server_vars, lru_vars>>

\* the variables outside the run of the awk script on two documents
outside_pair == <<run_vars, server_vars, lru_vars>>

\* the variables outside the schema server
outside_server == <<run_vars, pair_vars, lru_vars>>

\* the variables outside the full schema cache
outside_lru == <<run_vars, pair_vars, server_vars>>

vars == <<run_vars, pair_vars, server_vars, lru_vars>>

\* the concurrent handlers of the server, and of get_snap_schema requests
Handlers == {1, 2}

\* null, as a condition: !this.catalogLastFetch
NotFetched == 0

\* no result returned yet
NoResponse == [name |-> "-"]

\* a request that is not waiting for fetchSnapSchema
NoClassId == 0

\* BEGIN of validate_structure.awk; in_link and in_snap_map are unset there,
\* which awk reads as 0.  The three id strings are comma-joined lists.
AwkBEGIN ==
    [snap_count |-> 0, link_count |-> 0, pipeline_class_found |-> 0,
     snap_ids_found |-> 0, link_dst_ids |-> <<>>, link_src_ids |-> <<>>,
     snap_map_ids |-> <<>>, in_link |-> 0, in_snap_map |-> 0,
     out |-> <<>>, code |-> -1]

NotExited == -1

\* generate_json_output has not run
NoReport == [status |-> "-"]

Init ==
    /\ pc = "read"
    /\ nlines = 0
    /\ doc_discriminator = FALSE
    /\ doc_section = "top"
    /\ doc_nodes = {}
    /\ doc_duplicate = FALSE
    /\ doc_endpoints = {}
    \* BEGIN block of validate_structure.awk (in_snap_map starts unset)
    /\ snap_count = 0
    /\ link_count = 0
    /\ pipeline_class_found = 0
    /\ snap_ids_found = 0
    /\ in_snap_map = 0
    /\ awk_out = <<>>
    /\ awk_exit = NotExited
    /\ file = [pipeline_class |-> FALSE, snap_count |-> 0, link_count |-> 0,
               link_uuids |-> {}, after_snap_map |-> FALSE,
               snap_map_uuids |-> {}, fields |-> {}, json_ok |-> TRUE]
    \* "Initialize validation results" of validate-slp.sh
    /\ ERROR_COUNT = 0
    /\ WARNING_COUNT = 0
    /\ VALIDATION_RESULTS = <<>>
    /\ validation_passed = TRUE
    /\ pair_pc = "read"
    /\ pair_n = 0
    /\ awk1 = AwkBEGIN
    /\ awk2 = AwkBEGIN
    /\ file1 = file
    /\ file2 = file
    /\ class_changed = FALSE
    \* constructor of SchemaCache
    /\ catalog = [id \in {} |-> 1]
    /\ byCategory = [c \in {} |-> {}]
    /\ searchIndex = [t \in {} |-> {}]
    /\ catalogLastFetch = NotFetched
    /\ now = 1
    /\ fetches = [h \in Handlers |-> 0]
    /\ stale_handled = FALSE
    /\ reloaded = FALSE
    /\ isLoading = FALSE
    /\ handler = [h \in Handlers |-> "idle"]
    /\ response = NoResponse
    /\ fullSchemas = {}
    /\ schemaAccessOrder = <<>>
    /\ pending = [h \in Handlers |-> NoClassId]
    /\ requested = 0
    /\ irregular = 0
    /\ executed = <<>>
    /\ failed = {}
    \* "Parse command line arguments": the defaults
    /\ VERBOSE = FALSE
    /\ QUIET = FALSE
    /\ JSON_OUTPUT = FALSE
    /\ stdout = <<>>
    /\ report = NoReport
    /\ sh_exit = NotExited

(***************************************************************************)
(* The document: which section a line opens, which identifiers are keys of *)
(* snap_map and which identifiers the links name.                          *)
(***************************************************************************)
SectionAfter(sec, l) ==
    CASE l.kind = "snap_map" -> "snap_map"
      [] l.kind = "render_map" -> "render_map"
      [] l.kind = "link_map" -> "link_map"
      [] OTHER -> sec

NodesAfter(nodes, sec, l) ==
    IF l.kind = "key" /\ sec = "snap_map" THEN nodes \cup {l.id} ELSE nodes

DuplicateAfter(dup, nodes, sec, l) ==
    dup \/ (l.kind = "key" /\ sec = "snap_map" /\ l.id \in nodes)

EndpointsAfter(eps, l) ==
    IF l.kind \in {"src_id", "dst_id"} THEN eps \cup {l.id} ELSE eps

(***************************************************************************)
(* validate_structure.awk, the pattern-action rules, in program order.     *)
(***************************************************************************)
AwkPipelineRule(found, l) == IF MatchPipelineClass(l) THEN 1 ELSE found

AwkSnapRule(n, l) == IF MatchSnapClass(l) THEN n + 1 ELSE n

AwkLinkRule(n, l) == IF AwkMatchLink(l) THEN n + 1 ELSE n

AwkSnapMapRule(flag, l) == IF AwkMatchSnapMap(l) THEN 1 ELSE flag

\* runs after AwkSnapMapRule on the same line, so flag is the updated one
AwkSnapIdRule(n, flag, l) ==
    IF flag # 0 /\ MatchUuidKey(l) THEN n + 1 ELSE n

(***************************************************************************)
(* What the greps of validate-slp.sh see in the file once the line l is    *)
(* part of it.                                                             *)
(***************************************************************************)
\* grep -A 1000 '"snap_map"' "$FILE": the matching line and the lines after
\* it (documents here are far shorter than 1000 lines)
GrepAfterSnapMap(f, l) == f.after_snap_map \/ GrepMatchSnapMap(l)

FileAfter(f, l) ==
    [pipeline_class |-> f.pipeline_class \/ MatchPipelineClass(l),
     snap_count |-> IF MatchSnapClass(l) THEN f.snap_count + 1 ELSE f.snap_count,
     link_count |-> IF GrepMatchLink(l) THEN f.link_count + 1 ELSE f.link_count,
     link_uuids |-> IF GrepMatchEndpointUuid(l)
                    THEN f.link_uuids \cup {l.id} ELSE f.link_uuids,
     after_snap_map |-> GrepAfterSnapMap(f, l),
     snap_map_uuids |-> IF GrepAfterSnapMap(f, l) /\ MatchUuidKey(l)
                        THEN f.snap_map_uuids \cup {l.id} ELSE f.snap_map_uuids,
     fields |-> f.fields \cup FieldsIn(l),
     json_ok |-> f.json_ok /\ JsonAccepts(l)]

\* One more line of the document: awk applies its rules to it.
ReadLine(l) ==
    /\ pc = "read"
    /\ nlines < MaxLines
    /\ nlines' = nlines + 1
    /\ doc_discriminator' = (doc_discriminator \/ l.kind = "pipeline_class")
    /\ doc_section' = SectionAfter(doc_section, l)
    /\ doc_nodes' = NodesAfter(doc_nodes, SectionAfter(doc_section, l), l)
    /\ doc_duplicate' =
           DuplicateAfter(doc_duplicate, doc_nodes, SectionAfter(doc_section, l), l)
    /\ doc_endpoints' = EndpointsAfter(doc_endpoints, l)
    /\ pipeline_class_found' = AwkPipelineRule(pipeline_class_found, l)
    /\ snap_count' = AwkSnapRule(snap_count, l)
    /\ link_count' = AwkLinkRule(link_count, l)
    /\ in_snap_map' = AwkSnapMapRule(in_snap_map, l)
    /\ snap_ids_found' = AwkSnapIdRule(snap_ids_found, AwkSnapMapRule(in_snap_map, l), l)
    /\ file' = FileAfter(file, l)
    /\ UNCHANGED <<pc, awk_out, awk_exit, sh_vars, outside_run>>

(***************************************************************************)
(* validate_structure.awk, the END block: the first failing check prints  *)
(* its diagnostic and exits 1; with none failing, exit 0 and no output.    *)
(***************************************************************************)
AwkClassFails(found) == found = 0

\* Variant: only too few links are a mismatch.
AwkLinksFail_TooFewOnly(snaps, links) == snaps > 1 /\ links < snaps - 1

AwkLinksFail(snaps, links) == snaps > 1 /\ links # snaps - 1

AwkIdsFail(ids, snaps) == ids # snaps

\* Variant: the "exit 1" of the first check is missing, so END goes on to the
\* later checks after printing.
AwkEND_NoExitAfterClass(found, snaps, links, ids) ==
    LET first == IF AwkClassFails(found)
                 THEN <<"Missing pipeline class_id">> ELSE <<>>
    IN  IF AwkLinksFail(snaps, links)
        THEN [out |-> first \o <<"Link/snap mismatch">>, code |-> 1]
        ELSE IF AwkIdsFail(ids, snaps)
        THEN [out |-> first \o <<"Snap ID mismatch">>, code |-> 1]
        ELSE [out |-> first, code |-> 0]

\* Variant: the identifier cross-check is placed before the link check.
AwkEND_IdsBeforeLinks(found, snaps, links, ids) ==
    IF AwkClassFails(found)
    THEN [out |-> <<"Missing pipeline class_id">>, code |-> 1]
    ELSE IF AwkIdsFail(ids, snaps)
    THEN [out |-> <<"Snap ID mismatch">>, code |-> 1]
    ELSE IF AwkLinksFail(snaps, links)
    THEN [out |-> <<"Link/snap mismatch">>, code |-> 1]
    ELSE [out |-> <<>>, code |-> 0]

AwkEND(found, snaps, links, ids) ==
    IF AwkClassFails(found)
    THEN [out |-> <<"Missing pipeline class_id">>, code |-> 1]
    ELSE IF AwkLinksFail(snaps, links)
    THEN [out |-> <<"Link/snap mismatch">>, code |-> 1]
    ELSE IF AwkIdsFail(ids, snaps)
    THEN [out |-> <<"Snap ID mismatch">>, code |-> 1]
    ELSE [out |-> <<>>, code |-> 0]

\* End of input: awk runs END.  validate-slp.sh is then run on the same file.
END ==
    /\ pc = "read"
    /\ awk_out' = AwkEND(pipeline_class_found, snap_count, link_count, snap_ids_found).out
    /\ awk_exit' = AwkEND(pipeline_class_found, snap_count, link_count, snap_ids_found).code
    /\ pc' = "main"
    /\ UNCHANGED <<nlines, doc_vars, awk_vars, file, sh_vars, outside_run>>

(***************************************************************************)
(* validate-slp.sh.  g is the record of the script's globals               *)
(* ERROR_COUNT, WARNING_COUNT, VALIDATION_RESULTS; a validate_* function   *)
(* yields the globals it leaves and its return status rc.                  *)
(***************************************************************************)
Globals ==
    [ERROR_COUNT |-> ERROR_COUNT, WARNING_COUNT |-> WARNING_COUNT,
     VALIDATION_RESULTS |-> VALIDATION_RESULTS, stdout |-> stdout]

\* echo to standard output
Echo(g, kind) == [g EXCEPT !.stdout = Append(@, kind)]

log_info(g) == IF QUIET THEN g ELSE Echo(g, "info")

log_success(g) == IF QUIET THEN g ELSE Echo(g, "success")

log_warning(g, text) ==
    LET counted == [g EXCEPT !.WARNING_COUNT = @ + 1]
        echoed == IF QUIET THEN counted ELSE Echo(counted, "warning")
    IN  [echoed EXCEPT
            !.VALIDATION_RESULTS =
                Append(@, [level |-> "WARNING", text |-> text, arg |-> NoId])]

\* Variant: the error is recorded without being counted.
log_error_Uncounted(g, text, arg) ==
    [g EXCEPT !.VALIDATION_RESULTS =
                  Append(@, [level |-> "ERROR", text |-> text, arg |-> arg])]

\* the message goes to standard error
log_error(g, text, arg) ==
    [g EXCEPT !.ERROR_COUNT = @ + 1,
              !.VALIDATION_RESULTS =
                  Append(@, [level |-> "ERROR", text |-> text, arg |-> arg])]

log_verbose(g) == IF VERBOSE THEN Echo(g, "verbose") ELSE g

Returns(g, rc) == [g |-> g, rc |-> rc]

validate_json_syntax(g, f) ==
    IF f.json_ok
    THEN Returns(log_verbose(log_success(log_info(g))), 0)
    ELSE Returns(log_error(log_info(g), "JSON syntax error", NoId), 1)

\* Variant: a single snap with links is logged as an error.
validate_pipeline_structure_StrictSingle(g, f) ==
    LET counted == log_verbose(log_verbose(log_verbose(log_success(log_info(g)))))
    IN  IF ~f.pipeline_class
        THEN Returns(log_error(log_info(g),
                               "Missing pipeline class_id: com-snaplogic-pipeline",
                               NoId), 1)
        ELSE IF f.snap_count > 1
        THEN IF f.link_count = f.snap_count - 1
             THEN Returns(log_success(counted), 0)
             ELSE Returns(log_error(counted, "Snap/link count mismatch", NoId), 1)
        ELSE IF f.snap_count = 1
        THEN IF f.link_count = 0
             THEN Returns(log_success(counted), 0)
             ELSE Returns(log_error(counted, "Snap/link count mismatch", NoId), 1)
        ELSE Returns(log_error(counted, "No snaps found in pipeline", NoId), 1)

\* counted: the globals once the class_id was found and the two counts
\* were taken (log_success, then three log_verbose)
validate_pipeline_structure(g, f) ==
    LET counted == log_verbose(log_verbose(log_verbose(log_success(log_info(g)))))
    IN  IF ~f.pipeline_class
        THEN Returns(log_error(log_info(g),
                               "Missing pipeline class_id: com-snaplogic-pipeline",
                               NoId), 1)
        ELSE IF f.snap_count > 1
        THEN IF f.link_count = f.snap_count - 1
             THEN Returns(log_success(counted), 0)
             ELSE Returns(log_error(counted, "Snap/link count mismatch", NoId), 1)
        ELSE IF f.snap_count = 1
        THEN IF f.link_count = 0
             THEN Returns(log_success(counted), 0)
             ELSE Returns(log_warning(counted,
                              "Single snap pipeline has links (unusual but may be valid)"),
                          0)
        ELSE Returns(log_error(counted, "No snaps found in pipeline", NoId), 1)

\* the loop "for uuid in $link_uuids" over the sorted list, collecting the
\* identifiers that grep does not find in $snap_map_uuids
missing_uuids(f) ==
    SelectSeq(SortedUuids,
              LAMBDA u : u \in f.link_uuids /\ u \notin f.snap_map_uuids)

RECURSIVE LogMissing(_, _)
LogMissing(g, missing) ==
    IF missing = <<>>
    THEN g
    ELSE LogMissing(
             log_error(g, "UUID referenced in link_map but not found in snap_map",
                       Head(missing)),
             Tail(missing))

validate_uuids(g, f) ==
    IF Len(missing_uuids(f)) = 0
    THEN Returns(log_verbose(log_success(log_info(g))), 0)
    ELSE Returns(LogMissing(log_info(g), missing_uuids(f)), 1)

\* the loop over required_fields from position i: return 1 at the first
\* field grep does not find
RECURSIVE CheckFields(_, _, _)
CheckFields(g, f, i) ==
    IF i > Len(required_fields)
    THEN Returns(log_success(g), 0)
    ELSE IF required_fields[i] \in f.fields
    THEN CheckFields(log_verbose(g), f, i + 1)
    ELSE Returns(log_error(g, "Missing required field", required_fields[i]), 1)

validate_required_fields(g, f) == CheckFields(log_info(g), f, 1)

\* the options a command line can set
Options == [QUIET : BOOLEAN, VERBOSE : BOOLEAN, JSON_OUTPUT : BOOLEAN]

\* the command line that names the file only
NoOptions == [QUIET |-> FALSE, VERBOSE |-> FALSE, JSON_OUTPUT |-> FALSE]

\* The script starts with the command line args: the options are parsed,
\* then main prints its header.
main_header(args) ==
    /\ pc = "main"
    /\ QUIET' = args.QUIET
    /\ VERBOSE' = args.VERBOSE
    /\ JSON_OUTPUT' = args.JSON_OUTPUT
    /\ stdout' = IF args.QUIET THEN stdout ELSE stdout \o <<"header", "blank">>
    /\ pc' = "validate_json_syntax"
    /\ UNCHANGED <<nlines, doc_vars, awk_vars, awk_out, awk_exit, file,
                   ERROR_COUNT, WARNING_COUNT, VALIDATION_RESULTS,
                   validation_passed, executed, failed, report, sh_exit,
                   outside_run>>

\* Variant: the checks are chained so that a failing one ends the run.
NextCheck_StopOnFailure(rc, next) == IF rc # 0 THEN "output" ELSE next

\* main goes on to the next statement whatever the function returned
NextCheck(rc, next) == next

\* main:  <function> || validation_passed=false
Call(name, res, next) ==
    /\ pc = name
    /\ executed' = Append(executed, name)
    /\ failed' = IF res.rc # 0 THEN failed \cup {name} ELSE failed
    /\ ERROR_COUNT' = res.g.ERROR_COUNT
    /\ WARNING_COUNT' = res.g.WARNING_COUNT
    /\ VALIDATION_RESULTS' = res.g.VALIDATION_RESULTS
    /\ stdout' = res.g.stdout
    /\ validation_passed' = IF res.rc # 0 THEN FALSE ELSE validation_passed
    /\ pc' = NextCheck(res.rc, next)
    /\ UNCHANGED <<nlines, doc_vars, awk_vars, awk_out, awk_exit, file, sh_exit,
                   QUIET, VERBOSE, JSON_OUTPUT, report, outside_run>>

main_json_syntax ==
    Call("validate_json_syntax", validate_json_syntax(Globals, file),
         "validate_pipeline_structure")

main_pipeline_structure ==
    Call("validate_pipeline_structure", validate_pipeline_structure(Globals, file),
         "validate_uuids")

main_uuids ==
    Call("validate_uuids", validate_uuids(Globals, file),
         "validate_required_fields")

main_required_fields ==
    Call("validate_required_fields", validate_required_fields(Globals, file),
         "output")

\* The words of the summary's grep patterns (JSON, structure, count, snap,
\* UUID, field) that occur in the text of a recorded result.  The messages
\* in full: "Snap/link count mismatch: <n> snaps should have <m> links,
\* found <k>", "UUID <uuid> referenced in link_map but not found in
\* snap_map", "Missing required field: <field>".
KeywordsIn(r) ==
    CASE r.text = "JSON syntax error" -> {"JSON"}
      [] r.text = "Missing pipeline class_id: com-snaplogic-pipeline" -> {"snap"}
      [] r.text = "Snap/link count mismatch" -> {"count", "snap"}
      [] r.text = "Single snap pipeline has links (unusual but may be valid)" ->
             {"snap"}
      [] r.text = "No snaps found in pipeline" -> {"snap"}
      [] r.text = "UUID referenced in link_map but not found in snap_map" ->
             {"UUID", "snap"}
      [] r.text = "Missing required field" ->
             IF r.arg = "snap_map" THEN {"field", "snap"} ELSE {"field"}
      [] OTHER -> {}

\* grep -q 'ERROR.*<word>' <<< "${VALIDATION_RESULTS[*]}" for one of the
\* words: the results are joined into one line, so the word may stand in
\* the entry that starts with ERROR or in any entry after it.
GrepErrorThen(results, words) ==
    \E i \in 1..Len(results) : \E j \in i..Len(results) :
        /\ results[i].level = "ERROR"
        /\ KeywordsIn(results[j]) \cap words # {}

FailedOrPassed(found) == IF found THEN "failed" ELSE "passed"

generate_json_output(exit_code) ==
    [status |-> IF exit_code # 0 THEN "failed" ELSE "success",
     error_count |-> ERROR_COUNT,
     warning_count |-> WARNING_COUNT,
     validation_results |-> VALIDATION_RESULTS,
     summary |->
        [json_syntax |->
             FailedOrPassed(GrepErrorThen(VALIDATION_RESULTS, {"JSON"})),
         pipeline_structure |->
             FailedOrPassed(GrepErrorThen(VALIDATION_RESULTS,
                                          {"structure", "count", "snap"})),
         uuid_consistency |->
             FailedOrPassed(GrepErrorThen(VALIDATION_RESULTS, {"UUID"})),
         required_fields |->
             FailedOrPassed(GrepErrorThen(VALIDATION_RESULTS, {"field"}))]]

\* the closing lines of the text output
TextOutput ==
    <<"blank">> \o
    (IF validation_passed
     THEN (IF QUIET THEN <<>> ELSE <<"success">>) \o
          (IF WARNING_COUNT > 0 THEN <<"note">> ELSE <<>>)
     ELSE <<"failed", "counts">>)

\* main, "Generate output"
main_output ==
    /\ pc = "output"
    /\ report' = IF JSON_OUTPUT
                 THEN generate_json_output(IF validation_passed THEN 0 ELSE 1)
                 ELSE report
    /\ stdout' = IF JSON_OUTPUT THEN Append(stdout, "report")
                 ELSE stdout \o TextOutput
    /\ pc' = "exit"
    /\ UNCHANGED <<nlines, doc_vars, awk_vars, awk_out, awk_exit, file,
                   ERROR_COUNT, WARNING_COUNT, VALIDATION_RESULTS,
                   validation_passed, executed, failed, QUIET, VERBOSE,
                   JSON_OUTPUT, sh_exit, outside_run>>

\* Variant: a run with warnings does not exit 0.
ExitCode_WarningsFail(passed, errors, warnings) ==
    IF passed /\ warnings = 0 THEN 0 ELSE 1

\* "Exit with appropriate code"
ExitCode(passed, errors, warnings) == IF passed THEN 0 ELSE 1

main_exit ==
    /\ pc = "exit"
    /\ sh_exit' = ExitCode(validation_passed, ERROR_COUNT, WARNING_COUNT)
    /\ pc' = "done"
    /\ UNCHANGED <<nlines, doc_vars, awk_vars, awk_out, awk_exit, file,
                   ERROR_COUNT, WARNING_COUNT, VALIDATION_RESULTS,
                   validation_passed, executed, failed, QUIET, VERBOSE,
                   JSON_OUTPUT, stdout, report, outside_run>>

\* Both validators run on one document; the script is given the file only.
Next ==
    \/ \E l \in LineSet : ReadLine(l)
    \/ END
    \/ main_header(NoOptions)
    \/ main_json_syntax
    \/ main_pipeline_structure
    \/ main_uuids
    \/ main_required_fields
    \/ main_output
    \/ main_exit

Spec == Init /\ [][Next]_vars

\* The same run with any options on the command line, on documents of up to
\* MaxOptionLines lines.
MaxOptionLines == 5

OptionsNext ==
    \/ \E l \in LineSet : nlines < MaxOptionLines /\ ReadLine(l)
    \/ END
    \/ \E args \in Options : main_header(args)
    \/ main_json_syntax
    \/ main_pipeline_structure
    \/ main_uuids
    \/ main_required_fields
    \/ main_output
    \/ main_exit

SpecOptions == Init /\ [][OptionsNext]_vars

(***************************************************************************)
(* validate_structure.awk on two documents read side by side.  The two     *)
(* have the same lines, except that a src_id / dst_id line of the second   *)
(* may carry another value.  Here every variable of the script is kept,    *)
(* the id strings that END never reads included.                           *)
(***************************************************************************)
MaxPairLines == 5

\* in_link && /"dst_id": "([^"]+)"/ and the same for src_id
AwkEndpointRule(ids, flag, kind, l) ==
    IF flag # 0 /\ l.kind = kind THEN Append(ids, l.id) ELSE ids

\* in_link && /^[[:space:]]*},$/
AwkLinkCloseRule(flag, l) ==
    IF flag # 0 /\ l.kind = "link_close" THEN 0 ELSE flag

\* in_link after the link rule has run on the line
AwkLinkOpenRule(flag, l) == IF AwkMatchLink(l) THEN 1 ELSE flag

\* snap_map_ids after the snap id rule
AwkSnapMapIdsRule(ids, flag, l) ==
    IF flag # 0 /\ MatchUuidKey(l) THEN Append(ids, l.id) ELSE ids

\* All pattern-action rules applied to one line, in the script's order.
AwkRules(s, l) ==
    LET linked == AwkLinkOpenRule(s.in_link, l)
        mapped == AwkSnapMapRule(s.in_snap_map, l)
    IN  [s EXCEPT
            !.pipeline_class_found = AwkPipelineRule(@, l),
            !.snap_count = AwkSnapRule(@, l),
            !.link_count = AwkLinkRule(@, l),
            !.link_dst_ids = AwkEndpointRule(@, linked, "dst_id", l),
            !.link_src_ids = AwkEndpointRule(@, linked, "src_id", l),
            !.in_link = AwkLinkCloseRule(linked, l),
            !.in_snap_map = mapped,
            !.snap_ids_found = AwkSnapIdRule(@, mapped, l),
            !.snap_map_ids = AwkSnapMapIdsRule(@, mapped, l)]

\* The line of the second document that stands where l stands in the first.
OtherEndpoint(l, v) ==
    IF l.kind \in {"src_id", "dst_id"} THEN [kind |-> l.kind, id |-> v] ELSE l

PairReadLine(l, v) ==
    /\ pair_pc = "read"
    /\ pair_n < MaxPairLines
    /\ pair_n' = pair_n + 1
    /\ awk1' = AwkRules(awk1, l)
    /\ awk2' = AwkRules(awk2, OtherEndpoint(l, v))
    /\ UNCHANGED <<pair_pc, file1, file2, class_changed, outside_pair>>

AwkRunEND(s) ==
    LET r == AwkEND(s.pipeline_class_found, s.snap_count, s.link_count,
                    s.snap_ids_found)
    IN  [s EXCEPT !.out = r.out, !.code = r.code]

PairEND ==
    /\ pair_pc = "read"
    /\ awk1' = AwkRunEND(awk1)
    /\ awk2' = AwkRunEND(awk2)
    /\ pair_pc' = "done"
    /\ UNCHANGED <<pair_n, file1, file2, class_changed, outside_pair>>

PairNext ==
    \/ \E l \in LineSet : \E v \in Ids : PairReadLine(l, v)
    \/ PairEND

SpecPair == Init /\ [][PairNext]_vars

(***************************************************************************)
(* Both validators on two documents that differ in the value of one node's *)
(* class_id, both values being non-empty and neither the pipeline's.       *)
(***************************************************************************)
MaxClassPairLines == 4

\* a node's class_id line, whatever its value
NodeClassKinds == {"snap_class", "other_class"}

\* The run of validate-slp.sh (without options) on a file with the facts f:
\* the four checks in main's order, then the exit code.
ShRun(f) ==
    LET start == [ERROR_COUNT |-> 0, WARNING_COUNT |-> 0,
                  VALIDATION_RESULTS |-> <<>>, stdout |-> <<>>]
        json == validate_json_syntax(start, f)
        structure == validate_pipeline_structure(json.g, f)
        uuids == validate_uuids(structure.g, f)
        fields == validate_required_fields(uuids.g, f)
        passed == /\ json.rc = 0
                  /\ structure.rc = 0
                  /\ uuids.rc = 0
                  /\ fields.rc = 0
    IN  [results |-> fields.g.VALIDATION_RESULTS,
         code |-> ExitCode(passed, fields.g.ERROR_COUNT, fields.g.WARNING_COUNT)]

\* One more line of each document: l in the first and m in the second.
ClassPairReadLine(l, m) ==
    /\ pair_pc = "read"
    /\ pair_n < MaxClassPairLines
    /\ \/ m = l /\ UNCHANGED class_changed
       \/ /\ ~class_changed
          /\ l.kind \in NodeClassKinds
          /\ m.kind \in NodeClassKinds
          /\ class_changed' = TRUE
    /\ pair_n' = pair_n + 1
    /\ awk1' = AwkRules(awk1, l)
    /\ awk2' = AwkRules(awk2, m)
    /\ file1' = FileAfter(file1, l)
    /\ file2' = FileAfter(file2, m)
    /\ UNCHANGED <<pair_pc, outside_pair>>

ClassPairNext ==
    \/ \E l, m \in LineSet : ClassPairReadLine(l, m)
    \/ PairEND

SpecClassPair == Init /\ [][ClassPairNext]_vars

(***************************************************************************)
(* The schema MCP server: index.js with the SchemaCache of cache.js.       *)
(* A handler runs ensureCatalog, then the tool it was called for; handlers *)
(* interleave at their awaits.  The name and arguments of a request are    *)
(* drawn at the step that first reads them.                                *)
(***************************************************************************)
\* class_ids a client may send or the API may list; "" is the empty string
SnapIds == {"a", "b"}

NoValue == "undefined"

ClassIdValues == SnapIds \cup {"", NoValue}

\* !class_id
FalsyId(id) == id \in {"", NoValue}

\* class versions; NoVersion stands for a missing class_version
Versions == {1, 2}

NoVersion == -1

VersionValues == Versions \cup {0, NoVersion}

\* the value is used as a condition: config.class_version && ...
TruthyVersion(v) == v \notin {0, NoVersion}

\* What the class_ids of the model stand for: "a" for
\* com-snaplogic-snaps-transform-mapper and "b" for my-snaplogic-reader,
\* which /com-snaplogic-snaps-([^-]+)/ does not match.
categoryMatch(classId) == IF classId = "a" THEN "transform" ELSE "unknown"

\* `${snap.name} ${snap.description}`.toLowerCase() split at [\s\-_\.]+ :
\* the name is the class_id when the entry has no label
split(classId) ==
    IF classId = "a"
    THEN {"com", "snaplogic", "snaps", "transform", "mapper"}
    ELSE {"my", "snaplogic", "reader"}

\* the words of at most two characters
ShortWords == {"my"}

\* filter(token => token.length > 2)
tokenize(classId) == split(classId) \ ShortWords

\* The snaps of an API response: for each listed class_id whether the entry
\* has a class_map, and its class_version.
ApiResponses ==
    UNION {[ids -> [class_map : BOOLEAN, class_version : VersionValues]] :
               ids \in SUBSET SnapIds}

\* Variant: the category index is not cleared before it is filled.
processCatalog_KeepsByCategory(data) ==
    LET kept == {i \in DOMAIN data : data[i].class_map}
        old(c) == IF c \in DOMAIN byCategory THEN byCategory[c] ELSE {}
        in_category(c) == old(c) \cup {i \in kept : categoryMatch(i) = c}
        with_token(t) == {i \in kept : t \in tokenize(i)}
    IN  [catalog |->
             [id \in kept |->
                 [category |-> categoryMatch(id),
                  version |-> IF TruthyVersion(data[id].class_version)
                              THEN data[id].class_version ELSE 1]],
         byCategory |->
             [c \in DOMAIN byCategory \cup {categoryMatch(i) : i \in kept} |->
                 in_category(c)],
         searchIndex |->
             [t \in UNION {tokenize(i) : i \in kept} |-> with_token(t)]]

\* processCatalog: the three maps are cleared and filled from the response;
\* entries without class_map are skipped; version is
\* snapSchema.class_version || 1
processCatalog(data) ==
    LET kept == {i \in DOMAIN data : data[i].class_map}
        in_category(c) == {i \in kept : categoryMatch(i) = c}
        with_token(t) == {i \in kept : t \in tokenize(i)}
    IN  [catalog |->
             [id \in kept |->
                 [category |-> categoryMatch(id),
                  version |-> IF TruthyVersion(data[id].class_version)
                              THEN data[id].class_version ELSE 1]],
         byCategory |->
             [c \in {categoryMatch(i) : i \in kept} |-> in_category(c)],
         searchIndex |->
             [t \in UNION {tokenize(i) : i \in kept} |-> with_token(t)]]

\* the cache after this.catalog.clear(), byCategory.clear() and
\* searchIndex.clear()
Cleared ==
    [catalog |-> [id \in {} |-> 1],
     byCategory |-> [c \in {} |-> {}],
     searchIndex |-> [t \in {} |-> {}]]

\* 24 * 60 * 60 * 1000 ms, in hours
catalogTTL == 24

\* Variant: the catalog expires when its age reaches the time to live.
needsCatalogRefresh_AtTTL ==
    \/ catalogLastFetch = NotFetched
    \/ now - catalogLastFetch >= catalogTTL

\* !this.catalogLastFetch, or the age is greater than the time to live
needsCatalogRefresh ==
    \/ catalogLastFetch = NotFetched
    \/ now - catalogLastFetch > catalogTTL

\* catalog.get(classId) || null
getSnapInfo(classId) ==
    IF classId \in DOMAIN catalog
    THEN [found |-> TRUE, version |-> catalog[classId].version]
    ELSE [found |-> FALSE, version |-> NoVersion]

\* getCategories: name and count of every key of byCategory
getCategories == [c \in DOMAIN byCategory |-> Cardinality(byCategory[c])]

\* the methods class SchemaCache of cache.js defines
SchemaCacheMethods ==
    {"needsCatalogRefresh", "processCatalog", "indexSnapForSearch",
     "tokenize", "searchSnaps", "getCategories", "getSnapInfo", "clear"}

\* the catch block of the handler
ErrorResult(name, args, message) ==
    [name |-> name, args |-> args, snapInfo |-> getSnapInfo(args.class_id),
     isError |-> TRUE, text |-> message]

Result(name, args, text) ==
    [name |-> name, args |-> args, snapInfo |-> getSnapInfo(args.class_id),
     isError |-> FALSE, text |-> text]

\* the result of a call whose ensureCatalog threw
FetchError == [name |-> "-", isError |-> TRUE, text |-> "API error"]

\* A request arrives: the handler starts.
Receive(h) ==
    /\ handler[h] = "idle"
    /\ handler' = [handler EXCEPT ![h] = "ensureCatalog"]
    /\ UNCHANGED <<cache_vars, now, isLoading, response, fetches,
                   stale_handled, reloaded, outside_server>>

\* Variant: fetchCatalog without the test of isLoading.
ensureCatalog_NoLoadingTest(h) ==
    /\ handler[h] = "ensureCatalog"
    /\ handler' = [handler EXCEPT ![h] =
                      IF ~needsCatalogRefresh THEN "tool" ELSE "fetch"]
    /\ isLoading' = (isLoading \/ needsCatalogRefresh)
    /\ fetches' = [fetches EXCEPT ![h] = IF needsCatalogRefresh THEN 1 ELSE 0]
    /\ stale_handled' =
           (stale_handled \/ (catalogLastFetch # NotFetched
                              /\ needsCatalogRefresh))
    /\ UNCHANGED <<cache_vars, now, response, reloaded, outside_server>>

\* ensureCatalog and the start of fetchCatalog, up to the first await
ensureCatalog(h) ==
    /\ handler[h] = "ensureCatalog"
    /\ handler' = [handler EXCEPT ![h] =
                      IF ~needsCatalogRefresh THEN "tool"
                      ELSE IF isLoading THEN "waiting" ELSE "fetch"]
    /\ isLoading' = (isLoading \/ needsCatalogRefresh)
    /\ fetches' = [fetches EXCEPT ![h] =
                      IF needsCatalogRefresh /\ ~isLoading THEN 1 ELSE 0]
    /\ stale_handled' =
           (stale_handled \/ (catalogLastFetch # NotFetched
                              /\ needsCatalogRefresh))
    /\ UNCHANGED <<cache_vars, now, response, reloaded, outside_server>>

\* while (this.cache.isLoading) await ...: the loop ends once it is false
fetchCatalog_waited(h) ==
    /\ handler[h] = "waiting"
    /\ ~isLoading
    /\ handler' = [handler EXCEPT ![h] = "tool"]
    /\ UNCHANGED <<cache_vars, now, isLoading, response, fetches,
                   stale_handled, reloaded, outside_server>>

\* the API answered: processCatalog, then finally
fetchCatalog_ok(h, data) ==
    /\ handler[h] = "fetch"
    /\ LET processed == processCatalog(data)
       IN  /\ catalog' = processed.catalog
           /\ byCategory' = processed.byCategory
           /\ searchIndex' = processed.searchIndex
    /\ catalogLastFetch' = now
    /\ isLoading' = FALSE
    /\ handler' = [handler EXCEPT ![h] = "tool"]
    /\ stale_handled' = FALSE
    /\ reloaded' = (catalogLastFetch # NotFetched)
    /\ UNCHANGED <<now, response, fetches, outside_server>>

\* Variant: the failed fetch empties the cache.
fetchCatalog_error_Clears(h) ==
    /\ handler[h] = "fetch"
    /\ catalog' = Cleared.catalog
    /\ byCategory' = Cleared.byCategory
    /\ searchIndex' = Cleared.searchIndex
    /\ isLoading' = FALSE
    /\ response' = FetchError
    /\ handler' = [handler EXCEPT ![h] = "idle"]
    /\ fetches' = [fetches EXCEPT ![h] = 0]
    /\ UNCHANGED <<catalogLastFetch, now, stale_handled, reloaded,
                   outside_server>>

\* fetch rejected or !response.ok: the error reaches the handler's catch
fetchCatalog_error(h) ==
    /\ handler[h] = "fetch"
    /\ isLoading' = FALSE
    /\ response' = FetchError
    /\ handler' = [handler EXCEPT ![h] = "idle"]
    /\ fetches' = [fetches EXCEPT ![h] = 0]
    /\ UNCHANGED <<cache_vars, now, stale_handled, reloaded, outside_server>>

\* the body of the response is null: processCatalog clears the three maps
\* and throws at apiResponse.response_map
fetchCatalog_null(h) ==
    /\ handler[h] = "fetch"
    /\ catalog' = Cleared.catalog
    /\ byCategory' = Cleared.byCategory
    /\ searchIndex' = Cleared.searchIndex
    /\ isLoading' = FALSE
    /\ response' = [name |-> "-", isError |-> TRUE, text |-> "TypeError"]
    /\ handler' = [handler EXCEPT ![h] = "idle"]
    /\ fetches' = [fetches EXCEPT ![h] = 0]
    /\ UNCHANGED <<catalogLastFetch, now, stale_handled, reloaded,
                   outside_server>>

\* the hours that pass between two steps of the server
Delays == {12}

MaxTime == 49

\* time passes
TimePasses(d) ==
    /\ now + d <= MaxTime
    /\ now' = now + d
    /\ UNCHANGED <<cache_vars, isLoading, handler, response, fetches,
                   stale_handled, reloaded, outside_server>>

\* case 'get_snap_schema' with the cache class `methods`: getFullSchema is
\* called first, and calling what the class does not define is a TypeError
get_snap_schema(args, methods) ==
    IF FalsyId(args.class_id)
    THEN ErrorResult("get_snap_schema", args, "class_id is required")
    ELSE IF "getFullSchema" \notin methods
    THEN ErrorResult("get_snap_schema", args,
                     "this.cache.getFullSchema is not a function")
    ELSE IF ~getSnapInfo(args.class_id).found
    THEN ErrorResult("get_snap_schema", args, "Snap not found")
    ELSE Result("get_snap_schema", args,
                [class_id |-> args.class_id,
                 class_version |-> getSnapInfo(args.class_id).version])

\* Variant: a version mismatch is an error of the configuration.
CheckVersion_AsError(validation, config, snapInfo) ==
    IF TruthyVersion(config.class_version)
       /\ config.class_version # snapInfo.version
    THEN [validation EXCEPT !.valid = FALSE,
                            !.errors = Append(@, "Version mismatch")]
    ELSE validation

\* "Check version compatibility"
CheckVersion(validation, config, snapInfo) ==
    IF TruthyVersion(config.class_version)
       /\ config.class_version # snapInfo.version
    THEN [validation EXCEPT !.warnings = Append(@, "Version mismatch")]
    ELSE validation

\* "Basic validation"
CheckClassId(validation, config) ==
    IF FalsyId(config.class_id)
    THEN [validation EXCEPT !.valid = FALSE,
                            !.errors = Append(@, "Missing class_id")]
    ELSE IF ~getSnapInfo(config.class_id).found
    THEN [validation EXCEPT !.valid = FALSE,
                            !.errors = Append(@, "Unknown snap")]
    ELSE CheckVersion(validation, config, getSnapInfo(config.class_id))

\* "Check required fields": field is instance_id or property_map
CheckField(validation, given, message) ==
    IF given THEN validation
    ELSE [validation EXCEPT !.valid = FALSE, !.errors = Append(@, message)]

\* case 'validate_snap_config'
validate_snap_config(config) ==
    Result("validate_snap_config", config,
           CheckField(
               CheckField(
                   CheckClassId([valid |-> TRUE, errors |-> <<>>,
                                 warnings |-> <<>>], config),
                   config.instance_id, "Missing instance_id"),
               config.property_map, "Missing property_map"))

\* the arguments of get_snap_schema
SchemaArgs == [class_id : ClassIdValues]

\* the config argument of validate_snap_config; instance_id and
\* property_map by whether a truthy value is given
Configs ==
    [class_id : ClassIdValues, class_version : VersionValues,
     instance_id : BOOLEAN, property_map : BOOLEAN]

\* the switch of the handler, once the catalog is there
CallTool(h, result) ==
    /\ handler[h] = "tool"
    /\ response' = result
    /\ handler' = [handler EXCEPT ![h] = "idle"]
    /\ fetches' = [fetches EXCEPT ![h] = 0]
    /\ UNCHANGED <<cache_vars, now, isLoading, stale_handled, reloaded,
                   outside_server>>

ServerNext ==
    \/ \E h \in Handlers : Receive(h)
    \/ \E h \in Handlers : ensureCatalog(h)
    \/ \E h \in Handlers : fetchCatalog_waited(h)
    \/ \E h \in Handlers : \E data \in ApiResponses : fetchCatalog_ok(h, data)
    \/ \E h \in Handlers : fetchCatalog_error(h)
    \/ \E h \in Handlers : fetchCatalog_null(h)
    \/ \E h \in Handlers : \E args \in SchemaArgs :
           CallTool(h, get_snap_schema(args, SchemaCacheMethods))
    \/ \E h \in Handlers : \E config \in Configs :
           CallTool(h, validate_snap_config(config))

SpecServer == Init /\ [][ServerNext]_vars

(***************************************************************************)
(* The loading and the expiry of the catalog: the same handlers while time *)
(* passes, each call being for list_categories.                            *)
(***************************************************************************)
\* case 'list_categories'
list_categories ==
    [name |-> "list_categories", isError |-> FALSE, text |-> getCategories]

CatalogNext ==
    \/ \E h \in Handlers : Receive(h)
    \/ \E h \in Handlers : ensureCatalog(h)
    \/ \E h \in Handlers : fetchCatalog_waited(h)
    \/ \E h \in Handlers : \E data \in ApiResponses : fetchCatalog_ok(h, data)
    \/ \E h \in Handlers : fetchCatalog_error(h)
    \/ \E h \in Handlers : fetchCatalog_null(h)
    \/ \E d \in Delays : TimePasses(d)
    \/ \E h \in Handlers : CallTool(h, list_categories)

SpecCatalog == Init /\ [][CatalogNext]_vars

\* the HTTP fetch of handler h completes, with a catalog or with an error
FetchCompletes(h) ==
    \/ \E data \in ApiResponses : fetchCatalog_ok(h, data)
    \/ fetchCatalog_error(h)
    \/ fetchCatalog_null(h)

\* Every HTTP fetch eventually completes, and the timer of the polling loop
\* keeps firing: a waiter for which isLoading stays false leaves the loop.
\* The loop reads isLoading only when its timer fires, so nothing makes a
\* waiter see a false value that does not last.
SpecCatalogFair ==
    /\ SpecCatalog
    /\ \A h \in Handlers : WF_vars(FetchCompletes(h))
    /\ \A h \in Handlers : WF_vars(fetchCatalog_waited(h))

(***************************************************************************)
(* The SchemaCache of cache.js by itself: processCatalog and clear called  *)
(* in any order, at any time.                                              *)
(***************************************************************************)
\* cache.processCatalog(data)
SchemaCache_processCatalog(data) ==
    /\ LET processed == processCatalog(data)
       IN  /\ catalog' = processed.catalog
           /\ byCategory' = processed.byCategory
           /\ searchIndex' = processed.searchIndex
    /\ catalogLastFetch' = now
    /\ UNCHANGED <<now, isLoading, handler, response, fetches, stale_handled,
                   reloaded, outside_server>>

\* cache.clear()
clear ==
    /\ catalog' = Cleared.catalog
    /\ byCategory' = Cleared.byCategory
    /\ searchIndex' = Cleared.searchIndex
    /\ catalogLastFetch' = NotFetched
    /\ UNCHANGED <<now, isLoading, handler, response, fetches, stale_handled,
                   reloaded, outside_server>>

CacheNext ==
    \/ \E data \in ApiResponses : SchemaCache_processCatalog(data)
    \/ clear
    \/ \E d \in Delays : TimePasses(d)

SpecCache == Init /\ [][CacheNext]_vars

(***************************************************************************)
(* The SchemaCache with the full schema cache (part_002), used by          *)
(* get_snap_schema as index.js uses it: getFullSchema, and after a miss    *)
(* "await fetchSnapSchema", then storeFullSchema.  The catalog is loaded   *)
(* and has every class_id asked for.  Class_ids are numbered in the order  *)
(* in which they are first asked for.                                      *)
(***************************************************************************)
maxFullSchemas == 50

\* class_ids the requests may name
MaxClassIds == 52

\* requests that name a class_id asked for before, or that begin while
\* another request awaits its schema
MaxIrregular == 1

\* indexOf
RECURSIVE indexOf(_, _, _)
indexOf(order, classId, i) ==
    IF i > Len(order) THEN 0
    ELSE IF order[i] = classId THEN i
    ELSE indexOf(order, classId, i + 1)

\* splice(index, 1)
splice(order, index) ==
    SubSeq(order, 1, index - 1) \o SubSeq(order, index + 1, Len(order))

\* getFullSchema on a hit: schemaAccessOrder once classId is moved to its end
getFullSchema_order(order, classId) ==
    IF indexOf(order, classId, 1) > 0
    THEN Append(splice(order, indexOf(order, classId, 1)), classId)
    ELSE Append(order, classId)

\* storeFullSchema, "Evict oldest if at capacity": the Map and the order
\* after shift() and delete(oldest); shift() of an empty array yields
\* undefined and delete(undefined) removes nothing
Evict(schemas, order) ==
    IF Cardinality(schemas) >= maxFullSchemas
    THEN IF order = <<>>
         THEN [schemas |-> schemas, order |-> order]
         ELSE [schemas |-> schemas \ {Head(order)}, order |-> Tail(order)]
    ELSE [schemas |-> schemas, order |-> order]

storeFullSchema(schemas, order, classId) ==
    [schemas |-> Evict(schemas, order).schemas \cup {classId},
     order |-> Append(Evict(schemas, order).order, classId)]

Irregular(classId) ==
    classId <= requested \/ \E g \in Handlers : pending[g] # NoClassId

\* get_snap_schema up to its await: getFullSchema(classId) returns the
\* schema (the request is answered) or null (the request goes on to fetch)
get_snap_schema_lookup(h, classId) ==
    /\ pending[h] = NoClassId
    /\ classId <= MaxClassIds
    /\ Irregular(classId) => irregular < MaxIrregular
    /\ irregular' = IF Irregular(classId) THEN irregular + 1 ELSE irregular
    /\ requested' = IF classId > requested THEN classId ELSE requested
    /\ IF classId \in fullSchemas
       THEN /\ schemaAccessOrder' = getFullSchema_order(schemaAccessOrder, classId)
            /\ UNCHANGED pending
       ELSE /\ pending' = [pending EXCEPT ![h] = classId]
            /\ UNCHANGED schemaAccessOrder
    /\ UNCHANGED <<fullSchemas, outside_lru>>

\* get_snap_schema after "await this.fetchSnapSchema(classId)"
get_snap_schema_store(h) ==
    /\ pending[h] # NoClassId
    /\ fullSchemas' =
           storeFullSchema(fullSchemas, schemaAccessOrder, pending[h]).schemas
    /\ schemaAccessOrder' =
           storeFullSchema(fullSchemas, schemaAccessOrder, pending[h]).order
    /\ pending' = [pending EXCEPT ![h] = NoClassId]
    /\ UNCHANGED <<requested, irregular, outside_lru>>

LruNext ==
    \/ \E h \in Handlers : \E classId \in 1..(requested + 1) :
           get_snap_schema_lookup(h, classId)
    \/ \E h \in Handlers : get_snap_schema_store(h)

SpecLRU == Init /\ [][LruNext]_vars

(***************************************************************************)
(* Properties.                                                             *)
(***************************************************************************)
Finished == pc = "done"

\* VALIDATION_RESULTS holds an "ERROR: <text>" entry
HasError(text) ==
    \E i \in 1..Len(VALIDATION_RESULTS) :
        VALIDATION_RESULTS[i].level = "ERROR" /\ VALIDATION_RESULTS[i].text = text

HasErrorFor(text, arg) ==
    \E i \in 1..Len(VALIDATION_RESULTS) :
        /\ VALIDATION_RESULTS[i].level = "ERROR"
        /\ VALIDATION_RESULTS[i].text = text
        /\ VALIDATION_RESULTS[i].arg = arg

AwkLinkMismatch == awk_out = <<"Link/snap mismatch">> /\ awk_exit = 1

ShLinkMismatch == HasError("Snap/link count mismatch") /\ sh_exit = 1

\* C1, as amended: for every document that has the pipeline class_id line and
\* whose derived snap count N is greater than 1, each path reports a link/snap
\* count mismatch and fails iff its derived link count differs from N-1.
C1_LinkCountWithDiscriminator ==
    Finished =>
        /\ (pipeline_class_found = 1 /\ snap_count > 1) =>
               (AwkLinkMismatch <=> link_count # snap_count - 1)
        /\ (file.pipeline_class /\ file.snap_count > 1) =>
               (ShLinkMismatch <=> file.link_count # file.snap_count - 1)

\* C1 witness: three snaps and one link, discriminator present, both paths
\* report the mismatch.
C1_Witness ==
    /\ Finished
    /\ doc_discriminator
    /\ snap_count = 3 /\ link_count = 1
    /\ file.snap_count = 3 /\ file.link_count = 1
    /\ AwkLinkMismatch
    /\ ShLinkMismatch

\* C1, as stated: for every document whose derived snap count N is greater
\* than 1, each path reports a link/snap count mismatch and fails iff its
\* derived link count differs from N-1.
C1_LinkCountAnyDocument ==
    Finished =>
        /\ snap_count > 1 =>
               (AwkLinkMismatch <=> link_count # snap_count - 1)
        /\ file.snap_count > 1 =>
               (ShLinkMismatch <=> file.link_count # file.snap_count - 1)

\* C2: the fast path fails with a no-nodes diagnostic and exit code 1 on
\* every document with the discriminator and a snap count of 0.
C2_FastRejectsNoNodes ==
    (awk_exit # NotExited /\ doc_discriminator /\ snap_count = 0) =>
        (awk_exit = 1 /\ awk_out = <<"No snaps found in pipeline">>)

\* C3: comprehensive path, every link endpoint that is not a key of snap_map
\* gets a dangling-reference error and the run exits non-zero.
C3_EveryDanglingEndpointReported ==
    Finished =>
        \A id \in doc_endpoints \ doc_nodes :
            /\ HasErrorFor("UUID referenced in link_map but not found in snap_map", id)
            /\ sh_exit = 1

\* C4: when validate_json_syntax fails, no later check is executed and the
\* only recorded error is the syntax error.
C4_SyntaxErrorStopsChecks ==
    (~file.json_ok /\ "validate_json_syntax" \in {executed[i] : i \in 1..Len(executed)}) =>
        /\ executed = <<"validate_json_syntax">>
        /\ VALIDATION_RESULTS =
               <<[level |-> "ERROR", text |-> "JSON syntax error", arg |-> NoId]>>

\* C5: a document the fast path rejects for a missing discriminator, a link
\* count mismatch or an identifier count mismatch is rejected by the
\* comprehensive path too, with an error of the same kind where the script
\* has that kind.
C5_FastRejectionImpliesComprehensive ==
    Finished =>
        /\ awk_out = <<"Missing pipeline class_id">> =>
               (sh_exit = 1 /\ HasError("Missing pipeline class_id: com-snaplogic-pipeline"))
        /\ awk_out = <<"Link/snap mismatch">> =>
               (sh_exit = 1 /\ HasError("Snap/link count mismatch"))
        /\ awk_out = <<"Snap ID mismatch">> => sh_exit = 1

\* C6: a document without the pipeline class_id line is rejected by both
\* paths, whatever its counts: the fast path prints the missing-class_id
\* diagnostic and exits 1, the comprehensive path records the missing-class_id
\* error and exits 1.
C6_MissingDiscriminatorRejected ==
    (Finished /\ ~doc_discriminator) =>
        /\ awk_out = <<"Missing pipeline class_id">>
        /\ awk_exit = 1
        /\ HasError("Missing pipeline class_id: com-snaplogic-pipeline")
        /\ sh_exit = 1

\* C6 witness: no discriminator, yet two snaps, one link and both identifiers
\* found (every other check of the fast path would pass).
C6_Witness ==
    /\ Finished
    /\ ~doc_discriminator
    /\ snap_count = 2 /\ link_count = 1 /\ snap_ids_found = 2
    /\ awk_exit = 1
    /\ sh_exit = 1

\* C7: the comprehensive path exits 0 iff ERROR_COUNT is 0 at the end of the
\* run, whatever WARNING_COUNT is.
C7_ExitZeroIffNoErrors ==
    Finished => (sh_exit = 0 <=> ERROR_COUNT = 0)

\* C7 witness: a run with a warning and no error that exits 0.
C7_Witness ==
    Finished /\ WARNING_COUNT = 1 /\ ERROR_COUNT = 0 /\ sh_exit = 0

\* C8: a run of the fast path ends with exit 0 and no output, or with exit 1
\* and exactly one diagnostic.
C8_SilentSuccessOrOneDiagnostic ==
    awk_exit # NotExited =>
        \/ awk_exit = 0 /\ awk_out = <<>>
        \/ awk_exit = 1 /\ Len(awk_out) = 1

\* C8 witness: a document that violates all three checks gets one diagnostic.
C8_Witness ==
    /\ awk_exit = 1
    /\ Len(awk_out) = 1
    /\ ~doc_discriminator
    /\ snap_count = 3 /\ link_count = 1
    /\ snap_ids_found = 0

\* C9: the fast path reports the earliest violated check in the order
\* discriminator, link count, identifier count, and only that one.
C9_FirstFailingCheckReported ==
    awk_exit # NotExited =>
        LET noClass == ~doc_discriminator
            badLinks == snap_count > 1 /\ link_count # snap_count - 1
            badIds == snap_ids_found # snap_count
        IN  /\ noClass => awk_out = <<"Missing pipeline class_id">>
            /\ (~noClass /\ badLinks) => awk_out = <<"Link/snap mismatch">>
            /\ (~noClass /\ ~badLinks /\ badIds) => awk_out = <<"Snap ID mismatch">>
            /\ (~noClass /\ ~badLinks /\ ~badIds) => awk_out = <<>>

\* C9 witness: discriminator present, link count and identifier count both
\* wrong, the link diagnostic is the one printed.
C9_Witness ==
    /\ awk_exit = 1
    /\ doc_discriminator
    /\ snap_count = 2 /\ link_count = 2
    /\ snap_ids_found = 1
    /\ awk_out = <<"Link/snap mismatch">>

C11_DuplicateKeyRejected ==
    (/\ Finished
     /\ doc_duplicate
     /\ doc_discriminator
     /\ ~(snap_count > 1 /\ link_count # snap_count - 1)) =>
        /\ awk_out = <<"Snap ID mismatch">>
        /\ awk_exit = 1
        /\ ERROR_COUNT > 0

AllChecks ==
    <<"validate_json_syntax", "validate_pipeline_structure", "validate_uuids",
      "validate_required_fields">>

\* C13: the comprehensive path records every violation: a document without
\* the discriminator that also violates the link count relationship (or has
\* no snaps) has both errors recorded, and a document missing two required
\* fields has both missing-field errors recorded.
C13_EveryViolationRecorded ==
    Finished =>
        /\ (/\ ~doc_discriminator
            /\ file.snap_count > 1
            /\ file.link_count # file.snap_count - 1) =>
               /\ HasError("Missing pipeline class_id: com-snaplogic-pipeline")
               /\ HasError("Snap/link count mismatch")
        /\ (~doc_discriminator /\ file.snap_count = 0) =>
               /\ HasError("Missing pipeline class_id: com-snaplogic-pipeline")
               /\ HasError("No snaps found in pipeline")
        /\ \A i \in 1..Len(required_fields) :
               required_fields[i] \notin file.fields =>
                   HasErrorFor("Missing required field", required_fields[i])

\* C14: a failure recorded by one check never keeps the later checks from
\* running: whatever combination of checks failed, all four functions have
\* been called, in order, when main reaches its report, and the errors of
\* every failed check are in the recorded results.
C14_LaterChecksStillRun ==
    pc \in {"output", "exit", "done"} =>
        /\ executed = AllChecks
        /\ ERROR_COUNT >= Cardinality(failed)
        /\ ERROR_COUNT =
               Cardinality({i \in 1..Len(VALIDATION_RESULTS) :
                               VALIDATION_RESULTS[i].level = "ERROR"})

\* C14 witness: the structure check and the UUID check both failed and
\* validate_required_fields ran after them and failed too.
C14_Witness ==
    /\ Finished
    /\ failed = {"validate_pipeline_structure", "validate_uuids",
                 "validate_required_fields"}
    /\ executed[4] = "validate_required_fields"
    /\ ERROR_COUNT = 3

\* C17: a document without a link_map key gets a missing-required-field
\* error for link_map and the comprehensive path exits non-zero.
C17_LinkMapRequired ==
    (Finished /\ "link_map" \notin file.fields) =>
        /\ HasErrorFor("Missing required field", "link_map")
        /\ sh_exit = 1

CheckOf ==
    [json_syntax |-> "validate_json_syntax",
     pipeline_structure |-> "validate_pipeline_structure",
     uuid_consistency |-> "validate_uuids",
     required_fields |-> "validate_required_fields"]

\* C15: in the report printed with the json option, each category of the
\* summary is 'failed' exactly when the check of that category failed (it
\* logged an error and returned 1); no other category's error changes it.
C15_SummaryMatchesChecks ==
    (Finished /\ JSON_OUTPUT) =>
        \A c \in DOMAIN CheckOf :
            report.summary[c] = "failed" <=> CheckOf[c] \in failed

\* C16: with the json option, standard output holds the report and nothing
\* else, with or without the quiet option.
C16_JsonStdoutIsReportOnly ==
    (Finished /\ JSON_OUTPUT) => stdout = <<"report">>

\* C18 as stated: validate_snap_config, for a class_id of the catalog and
\* any declared class_version other than the catalog's, gives exactly one
\* warning and leaves valid to the other checks; for any class_id that is
\* not in the catalog it gives valid = false and an 'Unknown snap' error.
C18_AnyDeclaredValue ==
    response.name = "validate_snap_config" =>
        /\ (/\ response.snapInfo.found
            /\ response.args.class_version # NoVersion
            /\ response.args.class_version # response.snapInfo.version) =>
               /\ response.text.warnings = <<"Version mismatch">>
               /\ response.text.valid =
                      (response.args.instance_id /\ response.args.property_map)
        /\ (response.args.class_id # NoValue /\ ~response.snapInfo.found) =>
               /\ ~response.text.valid
               /\ \E i \in 1..Len(response.text.errors) :
                      response.text.errors[i] = "Unknown snap"

\* C18, amended: the same for a class_version that is not 0 (a truthy
\* value) and, in the second part, a class_id that is not the empty string.
C18_VersionWarningNotFailure ==
    response.name = "validate_snap_config" =>
        /\ (/\ response.snapInfo.found
            /\ TruthyVersion(response.args.class_version)
            /\ response.args.class_version # response.snapInfo.version) =>
               /\ response.text.warnings = <<"Version mismatch">>
               /\ response.text.valid =
                      (response.args.instance_id /\ response.args.property_map)
        /\ (~FalsyId(response.args.class_id) /\ ~response.snapInfo.found) =>
               /\ ~response.text.valid
               /\ \E i \in 1..Len(response.text.errors) :
                      response.text.errors[i] = "Unknown snap"

\* C18 witness: a config with class_version 2 for a snap the catalog has at
\* version 1 was validated: valid, no error, one warning.
C18_Witness ==
    /\ response.name = "validate_snap_config"
    /\ response.snapInfo = [found |-> TRUE, version |-> 1]
    /\ response.args.class_version = 2
    /\ response.text =
           [valid |-> TRUE, errors |-> <<>>, warnings |-> <<"Version mismatch">>]

\* C19: get_snap_schema for a class_id of the loaded catalog returns that
\* snap's schema as a non-error result.
C19_KnownSnapSchemaReturned ==
    (response.name = "get_snap_schema" /\ response.snapInfo.found) =>
        /\ ~response.isError
        /\ response.text =
               [class_id |-> response.args.class_id,
                class_version |-> response.snapInfo.version]

\* C20: the full schema cache never holds more than maxFullSchemas schemas.
C20_AtMostMaxFullSchemas == Cardinality(fullSchemas) <= maxFullSchemas

\* C22: the fast path counts a UUID-keyed line as a node identifier only
\* inside the snap_map section: once it has read the whole document (one
\* without duplicated keys), snap_ids_found is the number of UUID-shaped
\* keys of snap_map, whatever UUID-keyed entries later sections hold.
C22_IdsCountedInSnapMapOnly ==
    (awk_exit # NotExited /\ ~doc_duplicate) =>
        snap_ids_found = Cardinality({n \in doc_nodes : IsUuid(n)})

\* C23: a line raises the edge count of a path only if it lies in the
\* link_map section, and the two paths always have the same edge count.
C23_EdgesCountedInLinkMapOnly ==
    [][(link_count' # link_count \/ file'.link_count # file.link_count) =>
           /\ doc_section' = "link_map"
           /\ link_count' = file'.link_count]_vars

\* the check function that logs each error text
LoggedBy(text) ==
    CASE text = "JSON syntax error" -> "validate_json_syntax"
      [] text \in {"Missing pipeline class_id: com-snaplogic-pipeline",
                   "Snap/link count mismatch", "No snaps found in pipeline"} ->
             "validate_pipeline_structure"
      [] text = "UUID referenced in link_map but not found in snap_map" ->
             "validate_uuids"
      [] text = "Missing required field" -> "validate_required_fields"
      [] OTHER -> "-"

\* the check functions that have recorded an error
RecordedError ==
    {LoggedBy(VALIDATION_RESULTS[i].text) :
        i \in {j \in 1..Len(VALIDATION_RESULTS) :
                  VALIDATION_RESULTS[j].level = "ERROR"}}

\* C30: at every point of a run of the script, VALIDATION_RESULTS has
\* ERROR_COUNT + WARNING_COUNT entries, the check functions that returned
\* non-zero are those that recorded an error, and a printed report has
\* status 'failed' exactly when its error_count is positive.
C30_Bookkeeping ==
    /\ Len(VALIDATION_RESULTS) = ERROR_COUNT + WARNING_COUNT
    /\ failed = RecordedError
    /\ report # NoReport =>
           /\ report.status = "failed" <=> report.error_count > 0
           /\ report.error_count = ERROR_COUNT
           /\ report.warning_count = WARNING_COUNT

\* C30 witness: a run with the json option ended with a warning and an
\* error recorded, and its report says failed.
C30_Witness ==
    /\ Finished
    /\ JSON_OUTPUT
    /\ WARNING_COUNT = 1
    /\ ERROR_COUNT = 1
    /\ report.status = "failed"

\* C24: two documents that differ only in the value of one node's class_id
\* get the same node count and the same verdict from the fast path and
\* from the comprehensive path.
C24_NodeClassNotInterpreted ==
    pair_pc = "done" =>
        /\ awk1.snap_count = awk2.snap_count
        /\ awk1.out = awk2.out
        /\ awk1.code = awk2.code
        /\ file1.snap_count = file2.snap_count
        /\ ShRun(file1) = ShRun(file2)

\* the handlers whose catalog fetch is in flight
InFlight == {h \in Handlers : handler[h] = "fetch"}

\* handler h runs ensureCatalog in this step
Handled(h) == handler[h] = "ensureCatalog" /\ handler'[h] # "ensureCatalog"

\* C21: once the catalog has been loaded at time t, a call handled while
\* now - t <= catalogTTL goes to its tool without a fetch; the first call
\* handled while now - t > catalogTTL issues one fetch, and a call that is
\* under way issues no further one.
C21_TimeToLive ==
    [][\A h \in Handlers :
          /\ (Handled(h) /\ catalogLastFetch # NotFetched) =>
                 /\ now - catalogLastFetch <= catalogTTL =>
                        handler'[h] = "tool" /\ fetches'[h] = 0
                 /\ (now - catalogLastFetch > catalogTTL /\ ~stale_handled) =>
                        handler'[h] = "fetch" /\ fetches'[h] = 1
          /\ (handler[h] \in {"fetch", "waiting", "tool"}
              /\ handler'[h] # "idle") => fetches'[h] = fetches[h]]_vars

\* C21 witness: a call that found the loaded catalog expired is about to be
\* served, having issued one fetch, which replaced the catalog.
C21_Witness ==
    \E h \in Handlers :
        /\ handler[h] = "tool"
        /\ fetches[h] = 1
        /\ reloaded
        /\ catalogLastFetch = now

\* C25: at most one catalog fetch is in flight, and a call that runs
\* fetchCatalog while isLoading is true, or waits in its loop, issues no
\* HTTP request.
C25_OneFetchInFlight ==
    [][/\ Cardinality(InFlight') <= 1
       /\ \A h \in Handlers :
              ((Handled(h) /\ isLoading) \/ handler[h] = "waiting") =>
                  handler'[h] # "fetch" /\ fetches'[h] = 0]_vars

\* C25 witness: one call waits in the loop while the other's fetch is in
\* flight.
C25_Witness == handler[1] = "waiting" /\ handler[2] = "fetch"

\* C26: whenever ensureCatalog resolves for a call (the call reaches its
\* tool), the catalog has been loaded and is fresh.
C26_ResolvedMeansFresh ==
    [][\A h \in Handlers :
          (handler[h] # "tool" /\ handler'[h] = "tool") =>
              /\ catalogLastFetch' # NotFetched
              /\ now' - catalogLastFetch' <= catalogTTL]_vars

\* C28: a catalog fetch that fails with a network error or a non-OK status
\* leaves catalog, byCategory, searchIndex and catalogLastFetch as they
\* were, and the call returns an isError result.
C28_FailedFetchLeavesCache ==
    [][\A h \in Handlers :
          (/\ handler[h] = "fetch"
           /\ handler'[h] = "idle"
           /\ response'.text = "API error") =>
              /\ UNCHANGED cache_vars
              /\ response'.isError]_vars

\* C28 witness: the last call returned the error of a failed fetch, no
\* call is under way, and the cache still holds both snaps.
C28_Witness ==
    /\ response = FetchError
    /\ \A h \in Handlers : handler[h] = "idle"
    /\ DOMAIN catalog = SnapIds
    /\ UNION {byCategory[c] : c \in DOMAIN byCategory} = SnapIds
    /\ DOMAIN searchIndex # {}
    /\ now - catalogLastFetch > catalogTTL

RECURSIVE Sum(_)
\* the sum of the values of a function
Sum(f) ==
    IF DOMAIN f = {} THEN 0
    ELSE LET k == CHOOSE x \in DOMAIN f : TRUE
         IN  f[k] + Sum([x \in DOMAIN f \ {k} |-> f[x]])

\* C29: the sets of byCategory are pairwise disjoint, their union is the
\* key set of catalog, every class_id is in the set of its entry's
\* category, and the counts of getCategories sum to catalog.size.
C29_IndexConsistent ==
    /\ \A c, d \in DOMAIN byCategory :
           c # d => byCategory[c] \cap byCategory[d] = {}
    /\ UNION {byCategory[c] : c \in DOMAIN byCategory} = DOMAIN catalog
    /\ \A id \in DOMAIN catalog :
           /\ catalog[id].category \in DOMAIN byCategory
           /\ id \in byCategory[catalog[id].category]
    /\ Sum(getCategories) = Cardinality(DOMAIN catalog)

\* C29 witness: a later processCatalog left one snap, in one category.
C29_Witness ==
    /\ catalogLastFetch > 1
    /\ DOMAIN catalog = {"b"}
    /\ byCategory = [c \in {"unknown"} |-> {"b"}]

\* C27: if every HTTP fetch eventually completes, isLoading becomes false
\* after every load, and every caller waiting in the polling loop
\* eventually returns.
C27_LoadsEndAndWaitersReturn ==
    /\ isLoading ~> ~isLoading
    /\ \A h \in Handlers : (handler[h] = "waiting") ~> (handler[h] # "waiting")

\* the first part of C27 alone: isLoading becomes false after every load
LoadsEnd == isLoading ~> ~isLoading

====
